---- MODULE Spec2Model ----
(***************************************************************************)
(* Model of the dapper build orchestration engine (package file):          *)
(* Dapperfile.Build / Run / Shell, the classic build (buildLegacy), the    *)
(* graph build (bake), the image read-back (readEnv) and the Dockerfile    *)
(* preprocessor (dapperFile).                                              *)
(*                                                                         *)
(* A text line is modelled as the sequence of its whitespace separated    *)
(* fields (strings.Fields); lines have no leading blanks.  A byte buffer   *)
(* holding newline terminated lines is the sequence of those lines.        *)
(* Every external command the program starts is appended to `trace`,      *)
(* together with the error it returned; so is every use of a Runtime       *)
(* Config accessor and every successful read-back.                         *)
(***************************************************************************)
EXTENDS Integers, Sequences, FiniteSets, TLC

VARIABLES
    d,          \* the Dapperfile struct (configuration fields and env)
    dockerfile, \* text of the Dockerfile the build reads (d.File, or stdin when NoContext)
    pc,         \* position of the running call
    call,       \* the running call: entry point, build args, copy flag, command args
    tag,        \* local `tag` of build
    ret,        \* what d.build returned: [tag, err]
    err,        \* what the entry point (Build/Run/Shell) returned
    trace,      \* events of the running call, in order
    tmpfiles,   \* temporary Dockerfiles that exist on disk
    bakefile,   \* the JSON document last submitted to `buildx bake`
    resolved,   \* what d.dapperFile returned: [bytes, err]
    name,       \* container name generated by runArgs
    outIdx,     \* Run: index of the next Output path to copy back
    calls,      \* number of calls started so far
    input,      \* inputs of the function applied by a single-function specification
    output      \* what that function returned

vars == <<d, dockerfile, pc, call, tag, ret, err, trace, tmpfiles, bakefile,
          resolved, name, outIdx, calls, input, output>>

----------------------------------------------------------------------------
(* Bounds *)

MaxLines == 3       \* longest Dockerfile of the preprocessor specification
MaxCalls == 2       \* calls made on one Dapperfile in a behaviour

----------------------------------------------------------------------------
(* Errors *)

Nil          == "nil"
ErrSkipBuild == "skip build"
ErrNoContextBake == "contextless builds are not supported by buildkit"
ErrOpen      == "open: no such file"
ErrTempfile  == "tempfile: cannot create"
ErrJSON      == "json: cannot unmarshal"
ErrExec      == "exec: cannot replace process"
ErrMkdir     == "mkdir: permission denied"
Pending      == "pending"
Panic        == "panic: index out of range"

ExitError(what) == "exit status 1: " \o what

----------------------------------------------------------------------------
(* Dockerfile preprocessor *)

Archs == {"amd64", "arm64", "riscv64"}

ArchMapJSON == "{\"amd64\":\"Y\",\"arm64\":\"skip\"}"

EmptyMap == [k \in {} |-> ""]

\* the JSON object literal of an architecture-map comment
toMap(line) ==
    IF Len(line) >= 3 /\ line[3] = ArchMapJSON
    THEN [amd64 |-> "Y", arm64 |-> "skip"]
    ELSE EmptyMap

\* strings.HasPrefix(line, "FROM ")
HasPrefixFROM(line) == Len(line) >= 2 /\ line[1] = "FROM"

\* strings.HasPrefix(nextLine, "# FROM")
HasPrefixCommentFROM(line) == Len(line) >= 2 /\ line[1] = "#" /\ line[2] = "FROM"

\* the scanner loop of dapperFile from line i on: [skip, out]
RECURSIVE scanLines(_, _, _)
scanLines(lines, i, hostArch) ==
    IF i > Len(lines) THEN [skip |-> FALSE, out |-> <<>>]
    ELSE LET line == lines[i]
         IN  IF HasPrefixFROM(line) /\ Len(line) = 2 /\ i + 1 <= Len(lines)
             THEN LET nextLine == lines[i + 1]
                      isMap    == HasPrefixCommentFROM(nextLine)
                      m        == IF isMap THEN toMap(nextLine) ELSE EmptyMap
                      ok       == hostArch \in DOMAIN m
                  IN  IF ok /\ m[hostArch] = "skip" THEN [skip |-> TRUE, out |-> <<>>]
                      ELSE LET rest == scanLines(lines, i + 2, hostArch)
                           IN  [skip |-> rest.skip,
                                out  |-> IF rest.skip THEN <<>>
                                         ELSE << IF ok THEN <<"FROM", m[hostArch]>> ELSE line,
                                                 nextLine >> \o rest.out]
             ELSE LET rest == scanLines(lines, i + 1, hostArch)
                  IN  [skip |-> rest.skip,
                       out  |-> IF rest.skip THEN <<>> ELSE <<line>> \o rest.out]

NotRun == [bytes |-> <<>>, err |-> Pending]

\* d.dapperFile(): opened tells whether os.Open(d.File) succeeded
dapperFile(lines, hostArch, opened) ==
    IF ~opened THEN [bytes |-> <<>>, err |-> ErrOpen]
    ELSE LET r == scanLines(lines, 1, hostArch)
         IN  IF r.skip THEN [bytes |-> <<>>, err |-> ErrSkipBuild]
             ELSE [bytes |-> r.out, err |-> Nil]

----------------------------------------------------------------------------
(* Runtime Config (type Context): a map from variable name to value; a    *)
(* value is kept as the sequence of its blank separated fields.            *)

Get(env, k) == IF k \in DOMAIN env THEN env[k] ELSE <<>>

ContextSource(env) ==
    IF Get(env, "DAPPER_SOURCE") # <<>> THEN Get(env, "DAPPER_SOURCE")[1] ELSE "/source/"

ContextCp(env) ==
    IF Get(env, "DAPPER_CP") # <<>> THEN Get(env, "DAPPER_CP")[1] ELSE "."

ContextSocket(env) == Get(env, "DAPPER_DOCKER_SOCKET") = <<"true">>

\* an explicit override wins; otherwise the image's value; otherwise "bind"
ContextMode(env, mode) ==
    IF mode \in {"bind", "cp"} THEN mode
    ELSE IF Get(env, "DAPPER_MODE") # <<>> THEN Get(env, "DAPPER_MODE")[1]
    ELSE "bind"

ContextEnv(env)     == Get(env, "DAPPER_ENV")
ContextRunArgs(env) == Get(env, "DAPPER_RUN_ARGS")
ContextOutput(env)  == Get(env, "DAPPER_OUTPUT")

ContextShell(env) ==
    IF Get(env, "DAPPER_SHELL") # <<>> THEN Get(env, "DAPPER_SHELL")[1] ELSE "/bin/bash"

IsBind(dd) == ContextMode(dd.env, dd.Mode) = "bind"

----------------------------------------------------------------------------
(* Trace events *)

Cmd(what, argv, e) == [kind |-> "cmd", what |-> what, argv |-> argv, err |-> e]
Acc(what)          == [kind |-> "env", what |-> what, argv |-> <<>>, err |-> Nil]
ReadBack           == [kind |-> "readEnv", what |-> "ok", argv |-> <<>>, err |-> Nil]

\* outcomes of an external command
Outcomes(what) == {Nil, ExitError(what)}

----------------------------------------------------------------------------
(* The Dapperfile struct and the inputs of the model *)

DockerfilePath == "Dockerfile.dapper"

\* Dockerfiles of the build specification
ConditionalDockerfile == << <<"FROM", "X">>, <<"#", "FROM", ArchMapJSON>>, <<"RUN", "make">> >>
PlainDockerfile       == << <<"FROM", "X">>, <<"RUN", "make">> >>
Dockerfiles           == {ConditionalDockerfile, PlainDockerfile}

\* tags d.tag() can derive
Tags == {"app:main"}

\* build arguments / context path a caller of Build can pass
BuildArgChoices == {<<>>, <<"ctx">>}

\* trailing command of Run and Shell
CommandChoices == {<<>>, <<"make", "test">>}

\* one entry of the JSON array `docker inspect` prints: NAME=VALUE, or a
\* string without "="
Item(k, v) == [k |-> k, eq |-> TRUE, v |-> v]
NoEq(k)    == [k |-> k, eq |-> FALSE, v |-> <<>>]

\* environments an image can declare
ImageEnvs ==
    { <<>>,
      << Item("DAPPER_MODE", <<"cp">>), Item("DAPPER_OUTPUT", <<"bin", "/dist">>) >>,
      << Item("DAPPER_MODE", <<"bind">>), Item("DAPPER_SOURCE", <<"/src">>),
         Item("DAPPER_OUTPUT", <<"bin">>) >>,
      << Item("PATH", <<"/bin">>), NoEq("BROKEN") >> }

NoEnv == [k \in {} |-> <<>>]

Dapperfiles ==
    { [ File |-> DockerfilePath, Mode |-> m, env |-> NoEnv, Socket |-> FALSE,
        NoOut |-> no, Args |-> [FOO |-> "bar"], Quiet |-> FALSE, Bake |-> b,
        CacheFrom |-> c[1], CacheTo |-> c[2], hostArch |-> a, Keep |-> k,
        NoContext |-> nc, MountSuffix |-> "", Target |-> "" ] :
      m \in {"", "bind", "cp"}, no \in BOOLEAN, b \in BOOLEAN,
      c \in { <<<<>>, <<>>>>, << <<"type=local,src=c">>, <<"type=local,dest=c">> >> },
      a \in Archs, k \in BOOLEAN, nc \in BOOLEAN }

NoRet      == [tag |-> "", err |-> Pending]
NoCall     == [op |-> "", args |-> <<>>, copy |-> FALSE, commandArgs |-> <<>>]
NoBakefile == [group |-> [k \in {} |-> <<>>], target |-> [k \in {} |-> <<>>]]

MainTemp == "Dockerfile.dapper.tmp1"
CopyTemp == "Dockerfile.dapper.tmp2"

Init ==
    /\ d \in Dapperfiles
    /\ dockerfile \in Dockerfiles
    /\ pc = "idle"
    /\ call = NoCall
    /\ tag = ""
    /\ ret = NoRet
    /\ err = Pending
    /\ trace = <<>>
    /\ tmpfiles = {}
    /\ bakefile = NoBakefile
    /\ resolved = NotRun
    /\ name = ""
    /\ outIdx = 0
    /\ calls = 0
    /\ input = <<>>
    /\ output = <<>>

----------------------------------------------------------------------------
(* Entry points: Build, Run and Shell call d.build first *)

Enter(op, args, copy, commandArgs) ==
    /\ pc \in {"idle", "done"}
    /\ calls < MaxCalls
    /\ calls' = calls + 1
    /\ call' = [op |-> op, args |-> args, copy |-> copy, commandArgs |-> commandArgs]
    /\ pc' = "build"
    /\ tag' = ""
    /\ ret' = NoRet
    /\ err' = Pending
    /\ trace' = <<>>
    /\ bakefile' = NoBakefile
    /\ resolved' = NotRun
    /\ name' = ""
    /\ outIdx' = 0
    /\ UNCHANGED <<d, dockerfile, tmpfiles, input, output>>

Build == \E args \in BuildArgChoices : Enter("Build", args, FALSE, <<>>)

Run == \E commandArgs \in CommandChoices : Enter("Run", <<>>, TRUE, commandArgs)

Shell == \E commandArgs \in CommandChoices : Enter("Shell", <<>>, TRUE, commandArgs)

\* a failed build that still hands its tag to the caller
buildReturns_keepTag(t, e) ==
    /\ ret' = [tag |-> tag, err |-> e]
    /\ IF call.op = "Build" \/ e # Nil
       THEN pc' = "done" /\ err' = e
       ELSE pc' = "built" /\ err' = err

\* d.build returns (t, e) to its entry point: Build returns e; Run and
\* Shell return e when it is not nil and go on otherwise
buildReturns(t, e) ==
    /\ ret' = [tag |-> t, err |-> e]
    /\ IF call.op = "Build" \/ e # Nil
       THEN pc' = "done" /\ err' = e
       ELSE pc' = "built" /\ err' = err

\* the process dies of a run-time panic
panics ==
    /\ pc' = "crashed"
    /\ err' = Panic
    /\ ret' = ret

\* a build that leaves its temporary Dockerfile behind
deferredRemove_missing(files) == files

\* defer os.Remove(tempfile) of buildLegacy
deferredRemove(files) == files \ {MainTemp}

----------------------------------------------------------------------------
(* d.tag(): asks git for the branch name *)

tagCmd == Cmd("git", <<"git", "rev-parse", "--abbrev-ref", "HEAD">>, Nil)

----------------------------------------------------------------------------
(* Classic build: buildLegacy and buildWithContent *)

\* --build-arg flags, in the order `ks` the map iteration visits the keys
RECURSIVE buildArgFlags(_, _)
buildArgFlags(m, ks) ==
    IF ks = <<>> THEN <<>>
    ELSE <<"--build-arg", Head(ks) \o "=" \o m[Head(ks)]>> \o buildArgFlags(m, Tail(ks))

\* the orders in which a map's keys can be visited
KeyOrders(m) ==
    { ks \in [1..Cardinality(DOMAIN m) -> DOMAIN m] :
        \A i, j \in DOMAIN ks : i # j => ks[i] # ks[j] }

\* buildArgs that never name the tag
buildArgs_untagged(dd, args, tg, ks) ==
    <<"build">>
    \o (IF dd.Quiet THEN <<"-q">> ELSE <<>>)
    \o (IF dd.Target # "" THEN <<"--target", dd.Target>> ELSE <<>>)
    \o buildArgFlags(dd.Args, ks)

\* buildArgs as built by lines 250-265
buildArgs(dd, args, tg, ks) ==
    <<"build">>
    \o (IF Len(args) = 0 THEN <<"-t", tg>> ELSE <<>>)
    \o (IF dd.Quiet THEN <<"-q">> ELSE <<>>)
    \o (IF dd.Target # "" THEN <<"--target", dd.Target>> ELSE <<>>)
    \o buildArgFlags(dd.Args, ks)

\* after the main build succeeded: lines 292-296
afterMainBuild(files) ==
    IF ~call.copy
    THEN buildReturns(tag, Nil) /\ tmpfiles' = files
    ELSE pc' = "readEnv" /\ tmpfiles' = tmpfiles /\ UNCHANGED <<ret, err>>

buildLegacy_dapperFile ==
    /\ pc = "build"
    /\ ~d.Bake
    /\ \E opened \in (IF d.NoContext THEN {TRUE} ELSE BOOLEAN) :
         LET r == dapperFile(dockerfile, d.hostArch, opened)
         IN  /\ resolved' = r
             /\ IF r.err # Nil
                THEN buildReturns("", r.err)
                ELSE pc' = "legacy.tag" /\ UNCHANGED <<ret, err>>
    /\ UNCHANGED <<d, dockerfile, call, tag, trace, tmpfiles, bakefile, name, outIdx, calls, input, output>>

buildLegacy_tag ==
    /\ pc = "legacy.tag"
    /\ \E t \in Tags : tag' = t
    /\ trace' = Append(trace, tagCmd)
    /\ pc' = "legacy.build"
    /\ UNCHANGED <<d, dockerfile, call, ret, err, tmpfiles, bakefile, resolved, name, outIdx, calls, input, output>>

\* lines 267-272: the resolved Dockerfile is streamed on standard input
buildLegacy_stdin ==
    /\ pc = "legacy.build"
    /\ d.NoContext
    /\ \E ks \in KeyOrders(d.Args), e \in Outcomes("build") :
         /\ trace' = Append(trace,
                Cmd("build", buildArgs(d, call.args, tag, ks) \o <<"-">> \o call.args, e))
         /\ IF e # Nil
            THEN buildReturns("", e) /\ tmpfiles' = tmpfiles
            ELSE afterMainBuild(tmpfiles)
    /\ UNCHANGED <<d, dockerfile, call, tag, bakefile, resolved, name, outIdx, calls, input, output>>

\* lines 274-278: d.tempfile(dapperFile)
buildLegacy_tempfile ==
    /\ pc = "legacy.build"
    /\ ~d.NoContext
    /\ \E created \in BOOLEAN :
         IF created
         THEN /\ tmpfiles' = tmpfiles \cup {MainTemp}
              /\ pc' = "legacy.exec"
              /\ UNCHANGED <<ret, err>>
         ELSE /\ tmpfiles' = tmpfiles
              /\ buildReturns("", ErrTempfile)
    /\ UNCHANGED <<d, dockerfile, call, tag, trace, bakefile, resolved, name, outIdx, calls, input, output>>

\* lines 280-290
buildLegacy_exec ==
    /\ pc = "legacy.exec"
    /\ \E ks \in KeyOrders(d.Args), e \in Outcomes("build") :
         /\ trace' = Append(trace,
                Cmd("build",
                    buildArgs(d, call.args, tag, ks) \o <<"-f", MainTemp>>
                      \o (IF Len(call.args) > 0 THEN call.args ELSE <<".">>), e))
         /\ IF e # Nil
            THEN buildReturns("", e) /\ tmpfiles' = deferredRemove(tmpfiles)
            ELSE afterMainBuild(deferredRemove(tmpfiles))
    /\ UNCHANGED <<d, dockerfile, call, tag, bakefile, resolved, name, outIdx, calls, input, output>>

\* the deferred os.Remove(tempfile) of buildWithContent
removeTempfile(files) == files \ {CopyTemp}

\* lines 300-302 and 310-314: the synthetic Dockerfile is written to a temp file
buildWithContent_tempfile ==
    /\ pc = "copy.tempfile"
    /\ trace' = trace \o <<Acc("Cp"), Acc("Source")>>
    /\ \E created \in BOOLEAN :
         IF created
         THEN /\ tmpfiles' = tmpfiles \cup {CopyTemp}
              /\ pc' = "copy.exec"
              /\ UNCHANGED <<ret, err>>
         ELSE /\ tmpfiles' = deferredRemove(tmpfiles)
              /\ buildReturns("", ErrTempfile)
    /\ UNCHANGED <<d, dockerfile, call, tag, bakefile, resolved, name, outIdx, calls, input, output>>

\* lines 316-323 and 302-307
buildWithContent_exec ==
    /\ pc = "copy.exec"
    /\ \E e \in Outcomes("build") :
         /\ trace' = Append(trace,
                Cmd("copybuild", <<"build", "-t", tag, "-f", CopyTemp, ".">>, e))
         /\ buildReturns(IF e # Nil THEN "" ELSE tag, e)
    /\ tmpfiles' = deferredRemove(removeTempfile(tmpfiles))
    /\ UNCHANGED <<d, dockerfile, call, tag, bakefile, resolved, name, outIdx, calls, input, output>>

----------------------------------------------------------------------------
(* Graph build: bake *)

stage1Target(dd, contextPath, tg) ==
    [ Args |-> dd.Args, Context |-> contextPath, Contexts |-> EmptyMap,
      CacheFrom |-> dd.CacheFrom, CacheTo |-> dd.CacheTo, Dockerfile |-> dd.File,
      DockerfileInline |-> <<>>, Outputs |-> <<"type=docker">>, Tags |-> <<tg>>,
      Target |-> dd.Target ]

\* lines 376-381
untagStage1(stage1) ==
    [stage1 EXCEPT !.Outputs = <<"type=cacheonly">>, !.CacheFrom = <<>>,
                   !.CacheTo = <<>>, !.Tags = <<>>]

\* stage2 filled in from stage1 after stage1 was cleared
stage2Target_afterUntag(dd, stage1) ==
    [ Args |-> EmptyMap, Context |-> stage1.Context,
      Contexts |-> [stage1 |-> "target:stage1"],
      CacheFrom |-> untagStage1(stage1).CacheFrom, CacheTo |-> untagStage1(stage1).CacheTo,
      Dockerfile |-> "",
      DockerfileInline |-> << <<"FROM", "stage1">>,
                              <<"COPY", ContextCp(dd.env), ContextSource(dd.env)>> >>,
      Outputs |-> untagStage1(stage1).Outputs, Tags |-> untagStage1(stage1).Tags,
      Target |-> "" ]

\* lines 366-374
stage2Target(dd, stage1) ==
    [ Args |-> EmptyMap, Context |-> stage1.Context,
      Contexts |-> [stage1 |-> "target:stage1"],
      CacheFrom |-> stage1.CacheFrom, CacheTo |-> stage1.CacheTo, Dockerfile |-> "",
      DockerfileInline |-> << <<"FROM", "stage1">>,
                              <<"COPY", ContextCp(dd.env), ContextSource(dd.env)>> >>,
      Outputs |-> stage1.Outputs, Tags |-> stage1.Tags, Target |-> "" ]

\* the bake.File built by lines 331-382
bakeFile(dd, args, copy, tg) ==
    LET contextPath == IF Len(args) > 0 THEN args[1] ELSE "."
        stage1      == stage1Target(dd, contextPath, tg)
    IN  IF copy /\ ~IsBind(dd)
        THEN [ Groups  |-> [default |-> [Targets |-> <<"stage1", "stage2">>]],
               Targets |-> [stage1 |-> untagStage1(stage1),
                            stage2 |-> stage2Target(dd, stage1)] ]
        ELSE [ Groups  |-> [default |-> [Targets |-> <<"stage1">>]],
               Targets |-> [stage1 |-> stage1] ]

\* json.Marshal of a bake.Target: omitempty fields are left out when empty
MarshalTarget(t) ==
    LET present ==
            {"context", "dockerfile"}
            \cup (IF DOMAIN t.Args # {} THEN {"args"} ELSE {})
            \cup (IF DOMAIN t.Contexts # {} THEN {"contexts"} ELSE {})
            \cup (IF Len(t.CacheFrom) > 0 THEN {"cache-from"} ELSE {})
            \cup (IF Len(t.CacheTo) > 0 THEN {"cache-to"} ELSE {})
            \cup (IF Len(t.DockerfileInline) > 0 THEN {"dockerfile-inline"} ELSE {})
            \cup (IF Len(t.Outputs) > 0 THEN {"output"} ELSE {})
            \cup (IF Len(t.Tags) > 0 THEN {"tags"} ELSE {})
            \cup (IF t.Target # "" THEN {"target"} ELSE {})
    IN  [ k \in present |->
            CASE k = "args"              -> t.Args
              [] k = "context"           -> t.Context
              [] k = "contexts"          -> t.Contexts
              [] k = "cache-from"        -> t.CacheFrom
              [] k = "cache-to"          -> t.CacheTo
              [] k = "dockerfile"        -> t.Dockerfile
              [] k = "dockerfile-inline" -> t.DockerfileInline
              [] k = "output"            -> t.Outputs
              [] k = "tags"              -> t.Tags
              [] k = "target"            -> t.Target ]

\* json.Marshal of a bake.File
Marshal(f) ==
    [ group  |-> [g \in DOMAIN f.Groups |-> [targets |-> f.Groups[g].Targets]],
      target |-> [t \in DOMAIN f.Targets |-> MarshalTarget(f.Targets[t])] ]

\* lines 327-329
bake_NoContext ==
    /\ pc = "build"
    /\ d.Bake
    /\ d.NoContext
    /\ buildReturns("", ErrNoContextBake)
    /\ UNCHANGED <<d, dockerfile, call, tag, trace, tmpfiles, bakefile, resolved, name, outIdx, calls, input, output>>

\* the tag derived before the contextless check
bake_tag_unchecked ==
    /\ pc = "build"
    /\ d.Bake
    /\ \E t \in Tags : tag' = t
    /\ trace' = Append(trace, tagCmd)
    /\ pc' = "bake.exec"
    /\ UNCHANGED <<d, dockerfile, call, ret, err, tmpfiles, bakefile, resolved, name, outIdx, calls, input, output>>

\* line 336
bake_tag ==
    /\ pc = "build"
    /\ d.Bake
    /\ ~d.NoContext
    /\ \E t \in Tags : tag' = t
    /\ trace' = Append(trace, tagCmd)
    /\ pc' = "bake.exec"
    /\ UNCHANGED <<d, dockerfile, call, ret, err, tmpfiles, bakefile, resolved, name, outIdx, calls, input, output>>

\* Runtime Config accessors used while the graph is built (lines 360, 368)
bakeAccesses(dd, copy) ==
    IF ~copy THEN <<>>
    ELSE <<Acc("Mode")>> \o (IF ~IsBind(dd) THEN <<Acc("Cp"), Acc("Source")>> ELSE <<>>)

\* lines 338-391
bake_exec ==
    /\ pc = "bake.exec"
    /\ bakefile' = Marshal(bakeFile(d, call.args, call.copy, tag))
    /\ \E e \in Outcomes("buildx bake") :
         /\ trace' = trace \o bakeAccesses(d, call.copy)
                        \o <<Cmd("bake", <<"buildx", "bake", "-f", "-">>, e)>>
         /\ IF e # Nil
            THEN buildReturns("", e)
            ELSE pc' = "readEnv" /\ UNCHANGED <<ret, err>>
    /\ UNCHANGED <<d, dockerfile, call, tag, tmpfiles, resolved, name, outIdx, calls, input, output>>

----------------------------------------------------------------------------
(* Read-back of the Runtime Config: readEnv *)

\* what `docker inspect` can print: a JSON array of strings, or something else
HasNoEq(list) == \E i \in DOMAIN list : ~list[i].eq

\* lines 416-423: later items overwrite earlier ones
envOf(list) ==
    [ k \in {list[i].k : i \in DOMAIN list} |->
        list[CHOOSE i \in DOMAIN list :
                /\ list[i].k = k
                /\ \A j \in DOMAIN list : list[j].k = k => j <= i].v ]

inspectArgs(tg) == <<"inspect", "-f", "{{json .Config.Env}}", tg>>

\* the caller goes on after a successful read-back: lines 300-307 (classic),
\* 397 (graph)
afterReadEnv(dd, tr) ==
    IF d.Bake
    THEN /\ trace' = tr
         /\ buildReturns(tag, Nil)
         /\ tmpfiles' = tmpfiles
    ELSE /\ trace' = Append(tr, Acc("Mode"))
         /\ IF ~IsBind(dd)
            THEN pc' = "copy.tempfile" /\ tmpfiles' = tmpfiles /\ UNCHANGED <<ret, err>>
            ELSE buildReturns(tag, Nil) /\ tmpfiles' = deferredRemove(tmpfiles)

\* a read-back failure that is swallowed: the build returns its tag
readEnvFails_ignored(e) == buildReturns(tag, Nil)

\* lines 407-414: readEnv returns e and its caller returns ("", e)
readEnvFails(e) == buildReturns("", e)

readEnv ==
    /\ pc = "readEnv"
    /\ \/ \* line 407: the inspection fails
          /\ trace' = Append(trace, Cmd("inspect", inspectArgs(tag), ExitError("inspect")))
          /\ readEnvFails(ExitError("inspect"))
          /\ tmpfiles' = deferredRemove(tmpfiles)
          /\ d' = d
       \/ \* line 412: the output is not a JSON array of strings
          /\ trace' = Append(trace, Cmd("inspect", inspectArgs(tag), Nil))
          /\ readEnvFails(ErrJSON)
          /\ tmpfiles' = deferredRemove(tmpfiles)
          /\ d' = d
       \/ \E list \in ImageEnvs :
            IF HasNoEq(list)
            THEN \* line 420: parts[1] of an item without "=" panics
                 LET n == CHOOSE i \in DOMAIN list :
                            ~list[i].eq /\ \A j \in 1..(i - 1) : list[j].eq
                 IN  /\ d' = [d EXCEPT !.env = envOf(SubSeq(list, 1, n - 1))]
                     /\ trace' = Append(trace, Cmd("inspect", inspectArgs(tag), Nil))
                     /\ panics
                     /\ tmpfiles' = deferredRemove(tmpfiles)
            ELSE /\ d' = [d EXCEPT !.env = envOf(list)]
                 /\ afterReadEnv(d',
                        trace \o <<Cmd("inspect", inspectArgs(tag), Nil), ReadBack>>)
    /\ UNCHANGED <<dockerfile, call, tag, bakefile, resolved, name, outIdx, calls, input, output>>

----------------------------------------------------------------------------
(* Run argument builder: runArgs *)

vSocket == "/var/run/docker.sock:/var/run/docker.sock"
Getwd   == "/work/app"
Getuid  == "1000"
Getgid  == "1000"

randString == "x7k2"

\* strings.Split(tag, ":")[0]
tagRepo(tg) == IF tg = "app:main" THEN "app" ELSE tg

containerName(tg) == tagRepo(tg) \o "-" \o randString

RECURSIVE envFlags(_)
envFlags(envs) ==
    IF envs = <<>> THEN <<>> ELSE <<"-e", Head(envs)>> \o envFlags(Tail(envs))

\* the image's run arguments appended after the tag
runArgs_afterTag(dd, tg, shell, commandArgs, isatty, wdOK) ==
    <<"-i", "--name", containerName(tg)>>
    \o (IF isatty THEN <<"-t">> ELSE <<>>)
    \o (IF ContextSocket(dd.env) \/ dd.Socket THEN <<"-v", vSocket>> ELSE <<>>)
    \o (IF IsBind(dd) /\ wdOK
        THEN <<"-v", Getwd \o "/" \o ContextCp(dd.env) \o ":" \o ContextSource(dd.env)
                     \o (IF dd.MountSuffix # "" THEN ":" \o dd.MountSuffix ELSE "")>>
        ELSE <<>>)
    \o <<"-e", "DAPPER_UID=" \o Getuid>>
    \o <<"-e", "DAPPER_GID=" \o Getgid>>
    \o envFlags(ContextEnv(dd.env))
    \o (IF shell # "" THEN <<"--entrypoint", shell, "-e", "TERM">> ELSE <<>>)
    \o <<tg>>
    \o ContextRunArgs(dd.env)
    \o (IF shell # "" /\ Len(commandArgs) = 0 THEN <<"-">> ELSE commandArgs)

\* lines 177-217; isatty tells whether stdout is a terminal, wdOK whether
\* os.Getwd succeeded (line 188)
runArgs(dd, tg, shell, commandArgs, isatty, wdOK) ==
    <<"-i", "--name", containerName(tg)>>
    \o (IF isatty THEN <<"-t">> ELSE <<>>)
    \o (IF ContextSocket(dd.env) \/ dd.Socket THEN <<"-v", vSocket>> ELSE <<>>)
    \o (IF IsBind(dd) /\ wdOK
        THEN <<"-v", Getwd \o "/" \o ContextCp(dd.env) \o ":" \o ContextSource(dd.env)
                     \o (IF dd.MountSuffix # "" THEN ":" \o dd.MountSuffix ELSE "")>>
        ELSE <<>>)
    \o <<"-e", "DAPPER_UID=" \o Getuid>>
    \o <<"-e", "DAPPER_GID=" \o Getgid>>
    \o envFlags(ContextEnv(dd.env))
    \o (IF shell # "" THEN <<"--entrypoint", shell, "-e", "TERM">> ELSE <<>>)
    \o ContextRunArgs(dd.env)
    \o <<tg>>
    \o (IF shell # "" /\ Len(commandArgs) = 0 THEN <<"-">> ELSE commandArgs)

\* Runtime Config accessors runArgs uses
runArgsAccesses(dd) ==
    <<Acc("Socket"), Acc("Mode")>>
    \o (IF IsBind(dd) THEN <<Acc("Cp"), Acc("Source")>> ELSE <<>>)
    \o <<Acc("Env"), Acc("RunArgs")>>

----------------------------------------------------------------------------
(* Run: lines 122-158 *)

\* paths of the model that start with "/"
HasSlashPrefix(p) == p \in {"/dist", "/src", "/source/"}

\* path.Join(source, i) and path.Dir(i)
pathJoin(a, b) ==
    IF a = "/source/" THEN "/source/" \o b ELSE a \o "/" \o b
pathDir(p) == IF HasSlashPrefix(p) THEN "/" ELSE "."

\* the output copy guarded by NoOut alone
copiesOutput_ignoresBind(dd) == ~dd.NoOut /\ Len(ContextOutput(dd.env)) > 0

\* lines 141-142: the copy-back loop runs
copiesOutput(dd) == ~IsBind(dd) /\ ~dd.NoOut /\ Len(ContextOutput(dd.env)) > 0

\* a deferred function whose removal error becomes Run's error
RunReturns_propagates(tr, e, nm) ==
    /\ IF d.Keep
       THEN trace' = tr /\ err' = e
       ELSE \E rmErr \in Outcomes("rm") :
              /\ trace' = Append(tr, Cmd("rm", <<"rm", "-fv", nm>>, rmErr))
              /\ err' = IF rmErr # Nil THEN rmErr ELSE e
    /\ pc' = "done"

\* the deferred function of Run (lines 124-133), then Run returns e
RunReturns(tr, e, nm) ==
    /\ IF d.Keep
       THEN trace' = tr
       ELSE \E rmErr \in Outcomes("rm") :
              trace' = Append(tr, Cmd("rm", <<"rm", "-fv", nm>>, rmErr))
    /\ err' = e
    /\ pc' = "done"

Run_run ==
    /\ pc = "built"
    /\ call.op = "Run"
    /\ name' = containerName(ret.tag)
    /\ \E isatty \in BOOLEAN, wdOK \in BOOLEAN, e \in Outcomes("run") :
         LET tr == trace \o runArgsAccesses(d)
                     \o <<Cmd("run",
                              <<"run">> \o runArgs(d, ret.tag, "", call.commandArgs, isatty, wdOK), e)>>
             tr2 == tr \o <<Acc("Source"), Acc("Output"), Acc("Mode")>>
         IN  IF e # Nil
             THEN RunReturns(tr, e, name') /\ outIdx' = outIdx
             ELSE IF copiesOutput(d)
                  THEN trace' = tr2 /\ outIdx' = 1 /\ pc' = "run.output" /\ err' = err
                  ELSE RunReturns(tr2, Nil, name') /\ outIdx' = outIdx
    /\ UNCHANGED <<d, dockerfile, call, tag, ret, tmpfiles, bakefile, resolved, calls, input, output>>

\* a copy-back error that is returned
cpAborts_returns(e) == e # Nil

\* lines 152-154: an error of `docker cp` is logged and the loop goes on
cpAborts(e) == FALSE

\* one iteration of the loop of lines 142-155
Run_output ==
    /\ pc = "run.output"
    /\ LET i         == ContextOutput(d.env)[outIdx]
           p         == IF HasSlashPrefix(i) THEN i ELSE pathJoin(ContextSource(d.env), i)
           targetDir == pathDir(i)
       IN  \E made \in BOOLEAN, e \in Outcomes("cp") :
             LET mk == [kind |-> "mkdir", what |-> targetDir, argv |-> <<>>,
                        err |-> IF made THEN Nil ELSE ErrMkdir]
                 tr == trace \o <<mk, Cmd("cp", <<"cp", name \o ":" \o p, targetDir>>, e)>>
             IN  IF ~made
                 THEN RunReturns(Append(trace, mk), ErrMkdir, name) /\ outIdx' = outIdx
                 ELSE IF cpAborts(e)
                 THEN RunReturns(tr, e, name) /\ outIdx' = outIdx
                 ELSE IF outIdx = Len(ContextOutput(d.env))
                      THEN RunReturns(tr, Nil, name) /\ outIdx' = outIdx
                      ELSE trace' = tr /\ outIdx' = outIdx + 1 /\ pc' = pc /\ err' = err
    /\ UNCHANGED <<d, dockerfile, call, tag, ret, tmpfiles, bakefile, resolved, name, calls, input, output>>

----------------------------------------------------------------------------
(* Shell: lines 167-171; syscall.Exec replaces the process image *)

Shell_runExec ==
    /\ pc = "built"
    /\ call.op = "Shell"
    /\ name' = containerName(ret.tag)
    /\ \E isatty \in BOOLEAN, wdOK \in BOOLEAN, replaced \in BOOLEAN :
         /\ trace' = trace \o <<Acc("Shell")>> \o runArgsAccesses(d)
                \o <<Cmd("runExec",
                         <<"docker", "run", "--rm">>
                           \o runArgs(d, ret.tag, ContextShell(d.env), <<>>, isatty, wdOK),
                         IF replaced THEN Nil ELSE ErrExec)>>
         /\ IF replaced
            THEN pc' = "replaced" /\ err' = err
            ELSE pc' = "done" /\ err' = ErrExec
    /\ UNCHANGED <<d, dockerfile, call, tag, ret, tmpfiles, bakefile, resolved, outIdx, calls, input, output>>

----------------------------------------------------------------------------
(* Specification of the build orchestration *)

Next ==
    \/ Build
    \/ Run
    \/ Shell
    \/ buildLegacy_dapperFile
    \/ buildLegacy_tag
    \/ buildLegacy_stdin
    \/ buildLegacy_tempfile
    \/ buildLegacy_exec
    \/ buildWithContent_tempfile
    \/ buildWithContent_exec
    \/ bake_NoContext
    \/ bake_tag
    \/ bake_exec
    \/ readEnv
    \/ Run_run
    \/ Run_output
    \/ Shell_runExec

Spec == Init /\ [][Next]_vars

----------------------------------------------------------------------------
(* Specification of the preprocessor alone: every Dockerfile of at most   *)
(* MaxLines lines over LineKinds, on every architecture                    *)

LineKinds ==
    { <<"FROM", "X">>, <<"FROM", "X", "AS", "base">>,
      <<"#", "FROM", ArchMapJSON>>, <<"RUN", "make">> }

AllDockerfiles == UNION { [1..n -> LineKinds] : n \in 0..MaxLines }

InitDF ==
    /\ d \in { dd \in Dapperfiles :
                 /\ dd.Mode = "" /\ ~dd.Bake /\ ~dd.NoOut /\ ~dd.Keep /\ ~dd.NoContext
                 /\ dd.CacheFrom = <<>> }
    /\ dockerfile \in AllDockerfiles
    /\ pc = "idle"
    /\ call = NoCall
    /\ tag = ""
    /\ ret = NoRet
    /\ err = Pending
    /\ trace = <<>>
    /\ tmpfiles = {}
    /\ bakefile = NoBakefile
    /\ resolved = NotRun
    /\ name = ""
    /\ outIdx = 0
    /\ calls = 0
    /\ input = <<>>
    /\ output = <<>>

\* d.dapperFile() applied to a readable Dockerfile
Preprocess ==
    /\ pc = "idle"
    /\ resolved' = dapperFile(dockerfile, d.hostArch, TRUE)
    /\ pc' = "preprocessed"
    /\ UNCHANGED <<d, dockerfile, call, tag, ret, err, trace, tmpfiles, bakefile,
                   name, outIdx, calls, input, output>>

NextDF == Preprocess

SpecDF == InitDF /\ [][NextDF]_vars

----------------------------------------------------------------------------
(* Properties *)

IsBackendBuild(ev) == ev.kind = "cmd" /\ ev.what \in {"build", "copybuild", "bake"}
IsContainerStart(ev) == ev.kind = "cmd" /\ ev.what \in {"run", "runExec"}
IsCommand(ev) == ev.kind = "cmd"

HasPair(argv, a, b) == \E k \in 1..(Len(argv) - 1) : argv[k] = a /\ argv[k + 1] = b
EndsWith(argv, tail) ==
    /\ Len(argv) >= Len(tail)
    /\ SubSeq(argv, Len(argv) - Len(tail) + 1, Len(argv)) = tail

\* a FROM line with a single image token, followed by an architecture map
IsConditionalFROM(lines, i) ==
    /\ i + 1 <= Len(lines)
    /\ HasPrefixFROM(lines[i])
    /\ Len(lines[i]) = 2
    /\ HasPrefixCommentFROM(lines[i + 1])

MarksSkip(lines, arch) ==
    \E i \in DOMAIN lines :
        /\ IsConditionalFROM(lines, i)
        /\ arch \in DOMAIN toMap(lines[i + 1])
        /\ toMap(lines[i + 1])[arch] = "skip"

\* a field of an emitted JSON object; a field left out is empty
JField(obj, k) == IF k \in DOMAIN obj THEN obj[k] ELSE <<>>

(* C1: under either build strategy, when the Dockerfile's architecture map *)
(* marks the host architecture "skip", no backend build command is        *)
(* invoked during the call, and a build call that got past its setup      *)
(* checks (mode combination, opening the Dockerfile) ends with            *)
(* ErrSkipBuild.                                                          *)
C1_SkipEndsBuildWithoutBackend ==
    MarksSkip(dockerfile, d.hostArch) =>
        /\ \A i \in DOMAIN trace : ~IsBackendBuild(trace[i])
        /\ ret.err \notin {Pending, ErrOpen, ErrNoContextBake} => ret.err = ErrSkipBuild

Stage2Inherits ==
    LET s2 == bakefile.target["stage2"]
    IN  /\ "contexts" \in DOMAIN s2
        /\ "stage1" \in DOMAIN s2["contexts"]
        /\ s2["contexts"]["stage1"] = "target:stage1"
        /\ JField(s2, "tags") = <<tag>>
        /\ JField(s2, "output") = <<"type=docker">>
        /\ JField(s2, "cache-from") = d.CacheFrom
        /\ JField(s2, "cache-to") = d.CacheTo

(* C2 as stated: in every emitted graph with a stage2 target, stage2 names *)
(* stage1 as the context "target:stage1", carries the tags, outputs,      *)
(* cache-from and cache-to stage1 had before the wiring, and stage1's own *)
(* tags, cache-from, cache-to and outputs are all empty.                  *)
C2_Stage1AllEmpty ==
    "stage2" \in DOMAIN bakefile.target =>
        /\ Stage2Inherits
        /\ JField(bakefile.target["stage1"], "tags") = <<>>
        /\ JField(bakefile.target["stage1"], "cache-from") = <<>>
        /\ JField(bakefile.target["stage1"], "cache-to") = <<>>
        /\ JField(bakefile.target["stage1"], "output") = <<>>

(* C2 amended: as above, except that stage1's outputs are not empty but   *)
(* exactly the single entry "type=cacheonly"; its tags, cache-from and    *)
(* cache-to are empty.                                                    *)
C2_Stage1CacheOnly ==
    "stage2" \in DOMAIN bakefile.target =>
        /\ Stage2Inherits
        /\ JField(bakefile.target["stage1"], "tags") = <<>>
        /\ JField(bakefile.target["stage1"], "cache-from") = <<>>
        /\ JField(bakefile.target["stage1"], "cache-to") = <<>>
        /\ JField(bakefile.target["stage1"], "output") = <<"type=cacheonly">>

C2_Witness ==
    /\ "stage2" \in DOMAIN bakefile.target
    /\ d.CacheFrom # <<>>
    /\ d.CacheTo # <<>>

(* C3: in every call, a Runtime Config accessor is used only after the    *)
(* read-back (readEnv) of that call's build has succeeded.                *)
C3_NoAccessBeforeReadBack ==
    \A i \in DOMAIN trace :
        trace[i].kind = "env" => \E j \in 1..(i - 1) : trace[j].kind = "readEnv"

(* C4: for a Dockerfile with a line `FROM X` immediately followed by      *)
(* `# FROM {"amd64":"Y","arm64":"skip"}`, preprocessing on amd64 yields   *)
(* `FROM Y` at that line, on arm64 the skip signal and no bytes, on any   *)
(* other architecture `FROM X` unchanged.                                 *)
C4_PinnedSkippedOrUnchanged ==
    resolved.err # Pending =>
        \A i \in DOMAIN dockerfile :
            ( /\ i + 1 <= Len(dockerfile)
              /\ dockerfile[i] = <<"FROM", "X">>
              /\ dockerfile[i + 1] = <<"#", "FROM", ArchMapJSON>> )
            => CASE d.hostArch = "amd64" ->
                      /\ resolved.err = Nil
                      /\ Len(resolved.bytes) = Len(dockerfile)
                      /\ resolved.bytes[i] = <<"FROM", "Y">>
                 [] d.hostArch = "arm64" ->
                      /\ resolved.err = ErrSkipBuild
                      /\ resolved.bytes = <<>>
                 [] OTHER ->
                      /\ resolved.err = Nil
                      /\ Len(resolved.bytes) = Len(dockerfile)
                      /\ resolved.bytes[i] = <<"FROM", "X">>

(* C5: every single-token FROM line immediately followed by an            *)
(* architecture-map comment is architecture-conditional, whatever line    *)
(* precedes it: the build is abandoned with the skip signal when the map  *)
(* marks the host architecture "skip", and otherwise the line is          *)
(* rewritten to the image the map pins for the host architecture.         *)
C5_EveryConditionalFROMHonoured ==
    resolved.err # Pending =>
        \A i \in DOMAIN dockerfile :
            IsConditionalFROM(dockerfile, i) =>
                LET m == toMap(dockerfile[i + 1])
                IN  IF d.hostArch \in DOMAIN m /\ m[d.hostArch] = "skip"
                    THEN resolved.err = ErrSkipBuild
                    ELSE \/ resolved.err = ErrSkipBuild
                         \/ /\ i <= Len(resolved.bytes)
                            /\ resolved.bytes[i] =
                                 IF d.hostArch \in DOMAIN m
                                 THEN <<"FROM", m[d.hostArch]>>
                                 ELSE dockerfile[i]

\* the main build command of a classic build that has a build context
IsContextBuild(ev) == ev.kind = "cmd" /\ ev.what = "build" /\ ~d.NoContext

(* C6 as stated: every classic, non-contextless build passes the          *)
(* temporary Dockerfile (-f), a context path (the caller's arguments, or  *)
(* "." when there are none) and -t <tag>, whether or not the caller       *)
(* supplied arguments; the tag passed is the tag the build call returns.  *)
C6_AlwaysTagged ==
    \A i \in DOMAIN trace :
        IsContextBuild(trace[i]) =>
            /\ HasPair(trace[i].argv, "-f", MainTemp)
            /\ EndsWith(trace[i].argv, IF call.args = <<>> THEN <<".">> ELSE call.args)
            /\ HasPair(trace[i].argv, "-t", tag)
            /\ ret.err = Nil => ret.tag = tag

(* C6 amended: every classic, non-contextless build passes the temporary  *)
(* Dockerfile (-f) and a context path (the caller's arguments, or "."     *)
(* when there are none); it passes -t <tag>, the tag the build call       *)
(* returns, exactly when the caller supplied no arguments.                *)
C6_TaggedIffNoArgs ==
    \A i \in DOMAIN trace :
        IsContextBuild(trace[i]) =>
            /\ HasPair(trace[i].argv, "-f", MainTemp)
            /\ EndsWith(trace[i].argv, IF call.args = <<>> THEN <<".">> ELSE call.args)
            /\ HasPair(trace[i].argv, "-t", tag) <=> call.args = <<>>
            /\ ret.err = Nil => ret.tag = tag

C6_Witness ==
    /\ pc = "done"
    /\ call.args # <<>>
    /\ ret.err = Nil
    /\ \E i \in DOMAIN trace : IsContextBuild(trace[i])

(* C7: when graph-build mode and contextless mode are both requested, no  *)
(* external command is invoked during the call, and the build call fails  *)
(* with the configuration error and an empty tag.                         *)
C7_BakeNoContextFailsFirst ==
    (d.Bake /\ d.NoContext) =>
        /\ \A i \in DOMAIN trace : ~IsCommand(trace[i])
        /\ pc \notin {"idle", "build"} =>
              /\ pc = "done"
              /\ ret = [tag |-> "", err |-> ErrNoContextBake]
              /\ err = ErrNoContextBake

C7_Witness == d.Bake /\ d.NoContext /\ pc = "done" /\ call.op = "Run"

(* C8: within one build call each backend build command (main build,      *)
(* copy-stage build, bake submission) is invoked at most once; when one   *)
(* fails, nothing is invoked after it and the build call returns that     *)
(* very error with an empty tag.                                          *)
C8_BuildFailureFinal ==
    /\ \A i, j \in DOMAIN trace :
          (IsBackendBuild(trace[i]) /\ IsBackendBuild(trace[j]) /\ trace[i].what = trace[j].what)
          => i = j
    /\ \A i \in DOMAIN trace :
          (IsBackendBuild(trace[i]) /\ trace[i].err # Nil) =>
              /\ i = Len(trace)
              /\ ret = [tag |-> "", err |-> trace[i].err]
              /\ err = trace[i].err
              /\ pc = "done"

C8_Witness ==
    /\ pc = "done"
    /\ call.op = "Run"
    /\ \E i \in DOMAIN trace : trace[i].what = "copybuild" /\ trace[i].err # Nil

(* C9: Run and Shell start a container only after, in the same call, the  *)
(* backend build succeeded and the read-back succeeded after it; when the *)
(* inspection fails or prints malformed JSON, that error is returned and  *)
(* no container is started.                                               *)
C9_ContainerOnlyAfterReadBack ==
    /\ \A i \in DOMAIN trace :
          IsContainerStart(trace[i]) =>
              \E j, k \in 1..(i - 1) :
                  /\ j < k
                  /\ IsBackendBuild(trace[j]) /\ trace[j].err = Nil
                  /\ trace[k].kind = "readEnv"
    /\ \A i \in DOMAIN trace :
          ( /\ IsCommand(trace[i]) /\ trace[i].what = "inspect"
            /\ (i = Len(trace) \/ trace[i + 1].kind # "readEnv") ) =>
              /\ i = Len(trace)
              /\ pc \in {"done", "crashed"}
              /\ pc = "done" =>
                    /\ err = (IF trace[i].err # Nil THEN trace[i].err ELSE ErrJSON)
                    /\ ret = [tag |-> "", err |-> err]

C9_Witness ==
    /\ call.op \in {"Run", "Shell"}
    /\ pc = "done"
    /\ err = ErrJSON

----------------------------------------------------------------------------
(* Lookup, init, argsFromEnv and findHostArch, as a specification of      *)
(* their own: every Dockerfile of at most MaxLines lines over             *)
(* ArgLineKinds, every host environment of HostEnvs                       *)

GOARCH == "amd64"

\* lines 222-228; engine is what `docker version` printed, or "error"
findHostArch(engine) == IF engine = "error" THEN GOARCH ELSE engine

\* os.Getenv: the empty string for a variable that is not set
Getenv(env, key) == IF key \in DOMAIN env THEN env[key] ELSE ""

\* strings.Split(fields[1], "=")[0] on the fields of the model
splitKey(field) ==
    CASE field = "FOO=dflt" -> "FOO"
      [] field = "BAR="     -> "BAR"
      [] OTHER              -> field

\* the map with key k set to v
MapSet(m, k, v) == [x \in DOMAIN m \cup {k} |-> IF x = k THEN v ELSE m[x]]

\* an argument recorded whatever its value
recordArg_evenEmpty(r, key, value) == MapSet(r, key, value)

\* lines 108-110
recordArg(r, key, value) == IF value # "" THEN MapSet(r, key, value) ELSE r

\* the host architecture left alone by the ARG scan
archOf_unset(hostArch, key, value) == hostArch

\* lines 104-106
archOf(hostArch, key, value) == IF key = "DAPPER_HOST_ARCH" THEN value ELSE hostArch

\* the scanner loop of argsFromEnv (lines 85-111) from line i on;
\* acc is [r, hostArch]
RECURSIVE argsScan(_, _, _, _, _)
argsScan(lines, i, env, engine, acc) ==
    IF i > Len(lines) THEN acc
    ELSE LET fields == lines[i]
         IN  IF Len(fields) <= 1 \/ fields[1] # "ARG"
             THEN argsScan(lines, i + 1, env, engine, acc)
             ELSE LET key   == splitKey(fields[2])
                      got   == Getenv(env, key)
                      value == IF key = "DAPPER_HOST_ARCH" /\ got = ""
                               THEN findHostArch(engine) ELSE got
                  IN  argsScan(lines, i + 1, env, engine,
                               [r        |-> recordArg(acc.r, key, value),
                                hostArch |-> archOf(acc.hostArch, key, value)])

\* lines 76-114
argsFromEnv(lines, env, engine, opened) ==
    IF ~opened THEN [err |-> ErrOpen, r |-> EmptyMap, hostArch |-> ""]
    ELSE LET acc == argsScan(lines, 1, env, engine, [r |-> EmptyMap, hostArch |-> ""])
         IN  [err |-> Nil, r |-> acc.r, hostArch |-> acc.hostArch]

ErrStat     == "stat: no such file"
ErrLookPath == "exec: docker: executable file not found in $PATH"

\* Lookup and init (lines 49-74): [err, Args, hostArch]
init(in) ==
    IF ~in.stat THEN [err |-> ErrStat, Args |-> EmptyMap, hostArch |-> ""]
    ELSE IF ~in.lookPath THEN [err |-> ErrLookPath, Args |-> EmptyMap, hostArch |-> ""]
    ELSE LET a == argsFromEnv(in.lines, in.env, in.engine, in.opened)
         IN  IF a.err # Nil THEN [err |-> a.err, Args |-> EmptyMap, hostArch |-> a.hostArch]
             ELSE [err |-> Nil, Args |-> a.r,
                   hostArch |-> IF a.hostArch = "" THEN findHostArch(in.engine)
                                ELSE a.hostArch]

ArgLineKinds ==
    { <<"ARG", "FOO">>, <<"ARG", "FOO=dflt">>, <<"ARG", "DAPPER_HOST_ARCH">>,
      <<"ARG">>, <<"FROM", "X">>, <<"#", "FROM", ArchMapJSON>> }

ArgDockerfiles == UNION { [1..n -> ArgLineKinds] : n \in 0..MaxLines }

\* host environments: HOME is always set; FOO is unset, empty or "bar";
\* DAPPER_HOST_ARCH is unset or names an architecture
HostEnvs ==
    { [k \in ({"HOME"} \cup (IF foo = "unset" THEN {} ELSE {"FOO"})
                       \cup (IF arch = "unset" THEN {} ELSE {"DAPPER_HOST_ARCH"})) |->
          CASE k = "HOME" -> "/root"
            [] k = "FOO"  -> foo
            [] OTHER      -> arch] :
      foo \in {"unset", "", "bar"}, arch \in {"unset", "arm64"} }

\* what the engine reports as its server architecture
Engines == {"error", "riscv64"}

InitLookup ==
    /\ d \in { dd \in Dapperfiles :
                 /\ dd.Mode = "" /\ ~dd.Bake /\ ~dd.NoOut /\ ~dd.Keep /\ ~dd.NoContext
                 /\ dd.CacheFrom = <<>> /\ dd.hostArch = GOARCH }
    /\ dockerfile \in ArgDockerfiles
    /\ input \in [ lines : {dockerfile}, env : HostEnvs, engine : Engines,
                    stat : BOOLEAN, lookPath : BOOLEAN, opened : BOOLEAN ]
    /\ pc = "idle"
    /\ call = NoCall
    /\ tag = ""
    /\ ret = NoRet
    /\ err = Pending
    /\ trace = <<>>
    /\ tmpfiles = {}
    /\ bakefile = NoBakefile
    /\ resolved = NotRun
    /\ name = ""
    /\ outIdx = 0
    /\ calls = 0
    /\ output = [err |-> Pending, Args |-> EmptyMap, hostArch |-> ""]

\* Lookup(file): the Dapperfile it returns has Args and hostArch set by init
Lookup ==
    /\ pc = "idle"
    /\ output' = init(input)
    /\ d' = [d EXCEPT !.Args = output'.Args, !.hostArch = output'.hostArch]
    /\ pc' = IF output'.err = Nil THEN "ready" ELSE "failed"
    /\ UNCHANGED <<dockerfile, call, tag, ret, err, trace, tmpfiles, bakefile, resolved,
                   name, outIdx, calls, input>>

\* the preprocessing pass of a build on the Dapperfile Lookup returned
PreprocessAfterLookup ==
    /\ pc = "ready"
    /\ resolved' = dapperFile(dockerfile, d.hostArch, TRUE)
    /\ pc' = "preprocessed"
    /\ UNCHANGED <<d, dockerfile, call, tag, ret, err, trace, tmpfiles, bakefile,
                   name, outIdx, calls, input, output>>

NextLookup == Lookup \/ PreprocessAfterLookup

SpecLookup == InitLookup /\ [][NextLookup]_vars

----------------------------------------------------------------------------
(* Tag derivation: tag(), as a specification of its own.  A string is the *)
(* sequence of its characters.                                            *)

MaxName == 2        \* longest directory name and longest git output

Upper  == <<"A","B","C","D","E","F","G","H","I","J","K","L","M","N","O","P","Q","R","S",
            "T","U","V","W","X","Y","Z">>
Lower  == <<"a","b","c","d","e","f","g","h","i","j","k","l","m","n","o","p","q","r","s",
            "t","u","v","w","x","y","z">>
Digits == {"0","1","2","3","4","5","6","7","8","9"}

\* the characters the regexp [^a-zA-Z0-9] (line 25) does not match
AlphaNum == {Upper[i] : i \in DOMAIN Upper} \cup {Lower[i] : i \in DOMAIN Lower} \cup Digits

Space == {" ", "\n", "\t"}

\* strings.ToLower
ToLower(str) ==
    [ i \in DOMAIN str |->
        IF \E k \in DOMAIN Upper : Upper[k] = str[i]
        THEN Lower[CHOOSE k \in DOMAIN Upper : Upper[k] = str[i]]
        ELSE str[i] ]

\* strings.TrimSpace
RECURSIVE TrimSpace(_)
TrimSpace(str) ==
    IF str = <<>> THEN <<>>
    ELSE IF Head(str) \in Space THEN TrimSpace(Tail(str))
    ELSE IF str[Len(str)] \in Space THEN TrimSpace(SubSeq(str, 1, Len(str) - 1))
    ELSE str

\* filepath.Base
RECURSIVE Base(_)
Base(path) ==
    IF path = <<>> THEN <<".">>
    ELSE IF path[Len(path)] = "/"
         THEN IF Len(path) = 1 THEN <<"/">> ELSE Base(SubSeq(path, 1, Len(path) - 1))
    ELSE IF \E i \in DOMAIN path : path[i] = "/"
         THEN LET last == CHOOSE i \in DOMAIN path :
                            path[i] = "/" /\ \A j \in DOMAIN path : path[j] = "/" => j <= i
              IN  SubSeq(path, last + 1, Len(path))
    ELSE path

\* re.ReplaceAllLiteralString(tag, "-")
ReplaceAllLiteralString(str) ==
    [i \in DOMAIN str |-> IF str[i] \in AlphaNum THEN str[i] ELSE "-"]

DapperUnknown == <<"d","a","p","p","e","r","-","u","n","k","n","o","w","n">>
randChars     == <<"x", "7", "k", "2">>

\* lines 435-453; in.wdOK tells whether os.Getwd succeeded, in.git is what
\* `git rev-parse` printed (nothing when it failed)
tagOf(in) ==
    LET cwd == ToLower(IF in.wdOK THEN Base(in.wd) ELSE DapperUnknown)
        ref == IF TrimSpace(in.git) = <<>> THEN randChars ELSE TrimSpace(in.git)
    IN  cwd \o <<":">> \o ReplaceAllLiteralString(ref)

NameChars == {"A", "b", "_", " "}
RefChars  == {"m", "/", "\n"}

Strings(chars, n) == UNION { [1..k -> chars] : k \in 0..n }

InitTag ==
    /\ d \in { dd \in Dapperfiles :
                 /\ dd.Mode = "" /\ ~dd.Bake /\ ~dd.NoOut /\ ~dd.Keep /\ ~dd.NoContext
                 /\ dd.CacheFrom = <<>> /\ dd.hostArch = GOARCH }
    /\ dockerfile = PlainDockerfile
    /\ input \in [ wd   : { <<"/">> \o n : n \in Strings(NameChars, MaxName) },
                    wdOK : BOOLEAN,
                    git  : Strings(RefChars, MaxName) ]
    /\ pc = "idle"
    /\ call = NoCall
    /\ tag = ""
    /\ ret = NoRet
    /\ err = Pending
    /\ trace = <<>>
    /\ tmpfiles = {}
    /\ bakefile = NoBakefile
    /\ resolved = NotRun
    /\ name = ""
    /\ outIdx = 0
    /\ calls = 0
    /\ output = <<>>

DeriveTag ==
    /\ pc = "idle"
    /\ output' = tagOf(input)
    /\ pc' = "tagged"
    /\ UNCHANGED <<d, dockerfile, call, tag, ret, err, trace, tmpfiles, bakefile, resolved,
                   name, outIdx, calls, input>>

NextTag == DeriveTag

SpecTag == InitTag /\ [][NextTag]_vars

----------------------------------------------------------------------------
(* Run argument builder: runArgs, as a specification of its own           *)

\* Runtime Configs the builder is applied to
RunEnvs ==
    { NoEnv,
      [ DAPPER_MODE |-> <<"cp">>, DAPPER_DOCKER_SOCKET |-> <<"true">>,
        DAPPER_ENV |-> <<"CI", "GOFLAGS=-mod=vendor">>,
        DAPPER_RUN_ARGS |-> <<"--privileged">> ],
      [ DAPPER_MODE |-> <<"bind">>, DAPPER_DOCKER_SOCKET |-> <<"true">>,
        DAPPER_SOURCE |-> <<"/src">>, DAPPER_CP |-> <<"sub">>,
        DAPPER_ENV |-> <<"CI">>, DAPPER_RUN_ARGS |-> <<"--privileged", "--net=host">>,
        DAPPER_OUTPUT |-> <<"/out/result">> ] }

InitRunArgs ==
    /\ d \in { [dd EXCEPT !.Socket = s, !.MountSuffix = ms, !.env = e] :
                 dd \in { x \in Dapperfiles :
                            /\ ~x.Bake /\ ~x.NoOut /\ ~x.Keep /\ ~x.NoContext
                            /\ x.CacheFrom = <<>> /\ x.hostArch = GOARCH },
                 s \in BOOLEAN, ms \in {"", "z"}, e \in RunEnvs }
    /\ dockerfile = PlainDockerfile
    /\ input \in [ tag : Tags, shell : {"", "/bin/bash"}, commandArgs : CommandChoices,
                    isatty : BOOLEAN, wdOK : BOOLEAN ]
    /\ pc = "idle"
    /\ call = NoCall
    /\ tag = ""
    /\ ret = NoRet
    /\ err = Pending
    /\ trace = <<>>
    /\ tmpfiles = {}
    /\ bakefile = NoBakefile
    /\ resolved = NotRun
    /\ name = ""
    /\ outIdx = 0
    /\ calls = 0
    /\ output = <<>>

BuildRunArgs ==
    /\ pc = "idle"
    /\ name' = containerName(input.tag)
    /\ output' = runArgs(d, input.tag, input.shell, input.commandArgs, input.isatty,
                       input.wdOK)
    /\ pc' = "args"
    /\ UNCHANGED <<d, dockerfile, call, tag, ret, err, trace, tmpfiles, bakefile, resolved,
                   outIdx, calls, input>>

NextRunArgs == BuildRunArgs

SpecRunArgs == InitRunArgs /\ [][NextRunArgs]_vars

----------------------------------------------------------------------------
(* Properties, continued *)

\* events of the trace that are the command `what`
Events(what) == {i \in DOMAIN trace : trace[i].kind = "cmd" /\ trace[i].what = what}
Mkdirs == {i \in DOMAIN trace : trace[i].kind = "mkdir"}

\* Run got as far as attempting the container run
RunAttempted == call.op = "Run" /\ Events("run") # {}
RunSucceeded == call.op = "Run" /\ \E i \in Events("run") : trace[i].err = Nil

(* C11: in Run, once the container run was attempted, every exit path     *)
(* ends with exactly one container removal attempt, made last, when Keep  *)
(* is false and with none when Keep is true; the error Run returns is the *)
(* one of the run or of the directory creation, or nil, whatever the      *)
(* removal returned.                                                      *)
C11_OneRemovalUnlessKept ==
    RunAttempted =>
        /\ pc # "done" => Events("rm") = {}
        /\ pc = "done" =>
              /\ Cardinality(Events("rm")) = (IF d.Keep THEN 0 ELSE 1)
              /\ Events("rm") # {} => Len(trace) \in Events("rm")
              /\ err = (IF \E i \in Events("run") : trace[i].err # Nil
                        THEN ExitError("run")
                        ELSE IF \E i \in Mkdirs : trace[i].err # Nil
                        THEN ErrMkdir
                        ELSE Nil)

C11_Witness ==
    /\ pc = "done"
    /\ RunSucceeded
    /\ Events("cp") # {}
    /\ err = Nil
    /\ \E i \in Events("rm") : trace[i].err # Nil

(* C12: in Run, when the resolved mode is bind no host directory is       *)
(* created and no docker cp is invoked, however many Output paths are     *)
(* declared; output copy happens only when the mode is not bind and       *)
(* NoOut is not set.                                                      *)
C12_NoCopyInBindMode ==
    (Events("cp") # {} \/ Mkdirs # {}) => (~IsBind(d) /\ ~d.NoOut)

C12_Witness ==
    /\ pc = "done"
    /\ RunSucceeded
    /\ IsBind(d)
    /\ ~d.NoOut
    /\ Len(ContextOutput(d.env)) >= 2

(* C13 as stated: in the copy-back step a failure for one Output path,    *)
(* directory creation included, is never returned as Run's error and     *)
(* does not keep the remaining paths from being attempted.                *)
C13_CopyBackNeverFatal ==
    (pc = "done" /\ RunSucceeded /\ copiesOutput(d)) =>
        /\ err = Nil
        /\ Cardinality(Events("cp")) = Len(ContextOutput(d.env))

(* C13 amended: a failure of `docker cp` for one Output path is only      *)
(* logged, is never returned as Run's error and does not keep the         *)
(* remaining paths from being attempted; a failure to create the host     *)
(* directory of a path is returned as Run's error and ends the copy-back. *)
C13_OnlyMkdirFatal ==
    (pc = "done" /\ RunSucceeded /\ copiesOutput(d)) =>
        IF \E i \in Mkdirs : trace[i].err # Nil
        THEN /\ err = ErrMkdir
             /\ \A i \in Mkdirs : trace[i].err # Nil =>
                    \A j \in Events("cp") \cup Mkdirs : j <= i
        ELSE /\ err = Nil
             /\ Cardinality(Events("cp")) = Len(ContextOutput(d.env))
             /\ Cardinality(Mkdirs) = Len(ContextOutput(d.env))

C13_Witness ==
    /\ pc = "done"
    /\ err = Nil
    /\ Cardinality(Events("cp")) = 2
    /\ \E i, j \in Events("cp") : i < j /\ trace[i].err # Nil

\* names declared by the ARG lines of a Dockerfile
Declared(lines) ==
    { splitKey(lines[i][2]) : i \in {j \in DOMAIN lines : Len(lines[j]) >= 2 /\ lines[j][1] = "ARG"} }

(* C14 as stated: for every declared ARG name other than DAPPER_HOST_ARCH, *)
(* a name set in the host environment to v is passed as NAME=v, a name    *)
(* that is unset is absent, and no undeclared name is passed.             *)
C14_SetMeansPassed ==
    output.err = Nil =>
        /\ DOMAIN output.Args \subseteq Declared(input.lines)
        /\ \A n \in Declared(input.lines) \ {"DAPPER_HOST_ARCH"} :
              IF n \in DOMAIN input.env
              THEN n \in DOMAIN output.Args /\ output.Args[n] = input.env[n]
              ELSE n \notin DOMAIN output.Args

(* C14 amended: for every declared ARG name other than DAPPER_HOST_ARCH,  *)
(* a name set in the host environment to a non-empty value v is passed as *)
(* NAME=v; a name that is unset, or set to the empty string, is absent;   *)
(* no undeclared name is passed and no value passed is empty.             *)
C14_NonEmptyMeansPassed ==
    output.err = Nil =>
        /\ DOMAIN output.Args \subseteq Declared(input.lines)
        /\ \A n \in DOMAIN output.Args : output.Args[n] # ""
        /\ \A n \in Declared(input.lines) \ {"DAPPER_HOST_ARCH"} :
              IF n \in DOMAIN input.env /\ input.env[n] # ""
              THEN n \in DOMAIN output.Args /\ output.Args[n] = input.env[n]
              ELSE n \notin DOMAIN output.Args

C14_Witness ==
    /\ pc = "ready"
    /\ "FOO" \in Declared(input.lines)
    /\ "FOO" \in DOMAIN input.env
    /\ input.env["FOO"] = "bar"
    /\ output.Args["FOO"] = "bar"

(* C20 as stated: after a successful Lookup the host architecture the FROM *)
(* rewriting uses is the value of the DAPPER_HOST_ARCH environment        *)
(* variable, else the engine's server architecture, else the local        *)
(* architecture; it is set before a preprocessing pass runs; and a        *)
(* DAPPER_HOST_ARCH among the build arguments has that same value.        *)
C20_ArchFromEnvThenEngine ==
    pc \in {"ready", "preprocessed"} =>
        LET arch == IF Getenv(input.env, "DAPPER_HOST_ARCH") # ""
                    THEN Getenv(input.env, "DAPPER_HOST_ARCH")
                    ELSE findHostArch(input.engine)
        IN  /\ d.hostArch = arch
            /\ "DAPPER_HOST_ARCH" \in DOMAIN d.Args => d.Args["DAPPER_HOST_ARCH"] = d.hostArch
            /\ pc = "preprocessed" => resolved = dapperFile(dockerfile, arch, TRUE)

(* C20 amended: after a successful Lookup the host architecture the FROM  *)
(* rewriting uses is the value of the DAPPER_HOST_ARCH environment        *)
(* variable when the Dockerfile declares ARG DAPPER_HOST_ARCH and the     *)
(* variable is not empty, else the engine's server architecture, else the *)
(* local architecture; it is set before a preprocessing pass runs; and a  *)
(* DAPPER_HOST_ARCH among the build arguments has that same value.        *)
C20_ArchFromDeclaredEnvThenEngine ==
    pc \in {"ready", "preprocessed"} =>
        LET arch == IF /\ "DAPPER_HOST_ARCH" \in Declared(input.lines)
                       /\ Getenv(input.env, "DAPPER_HOST_ARCH") # ""
                    THEN Getenv(input.env, "DAPPER_HOST_ARCH")
                    ELSE findHostArch(input.engine)
        IN  /\ d.hostArch = arch
            /\ "DAPPER_HOST_ARCH" \in DOMAIN d.Args => d.Args["DAPPER_HOST_ARCH"] = d.hostArch
            /\ pc = "preprocessed" => resolved = dapperFile(dockerfile, arch, TRUE)

C20_Witness ==
    /\ pc = "preprocessed"
    /\ "DAPPER_HOST_ARCH" \in DOMAIN d.Args
    /\ d.Args["DAPPER_HOST_ARCH"] = "arm64"
    /\ input.engine = "riscv64"
    /\ resolved.err = ErrSkipBuild

(* C15: for any working directory name and any branch name the derived    *)
(* tag is <lowercased directory name>:<sanitized ref> and contains no     *)
(* character outside [A-Za-z0-9:-].                                       *)
C15_TagHasOnlyLegalCharacters ==
    pc = "tagged" =>
        /\ \E k \in DOMAIN output :
              /\ output[k] = ":"
              /\ SubSeq(output, 1, k - 1) =
                    ToLower(IF input.wdOK THEN Base(input.wd) ELSE DapperUnknown)
              /\ \A i \in (k + 1)..Len(output) : output[i] \in AlphaNum \cup {"-"}
        /\ \A i \in DOMAIN output : output[i] \in AlphaNum \cup {":", "-"}

\* the part of vector a that starts at index k and has the length of part
At(a, k, part) == k + Len(part) - 1 <= Len(a) /\ SubSeq(a, k, k + Len(part) - 1) = part

Count(a, x) == Cardinality({i \in DOMAIN a : a[i] = x})

CopyStage ==
    IF d.Bake THEN "stage2" \in DOMAIN bakefile.target ELSE Events("copybuild") # {}

(* C17: in every call whose build for run use succeeded, the copy-versus- *)
(* bind decision and the Cp and Source paths of the copy stage are those  *)
(* of the Runtime Config read back from the image built in that call.     *)
C17_DecisionFromThisCallsImage ==
    (call.copy /\ ret.tag # "" /\ ret.err = Nil) =>
        /\ CopyStage <=> ~IsBind(d)
        /\ (d.Bake /\ CopyStage) =>
              JField(bakefile.target["stage2"], "dockerfile-inline")
                = << <<"FROM", "stage1">>,
                     <<"COPY", ContextCp(d.env), ContextSource(d.env)>> >>

(* C18: a classic build in contextless mode never runs the copy-stage     *)
(* build; when the build is for run use and the mode read back is not     *)
(* bind, the call fails instead of returning a tag.                       *)
C18_ContextlessNeverCopies ==
    (d.NoContext /\ ~d.Bake) =>
        /\ Events("copybuild") = {}
        /\ (call.copy /\ ~IsBind(d) /\ \E i \in DOMAIN trace : trace[i] = ReadBack)
              => ret.tag = ""

(* C19: in every container start of Run and of Shell, the vector ends     *)
(* with the tag followed by the caller's trailing command whenever one    *)
(* was given, and ends with the tag followed by "-" exactly when the call *)
(* asks for the interactive shell and gave no trailing command.           *)
C19_TrailingCommandLast ==
    \A i \in Events("run") \cup Events("runExec") :
        /\ call.commandArgs # <<>>
              => EndsWith(trace[i].argv, <<ret.tag>> \o call.commandArgs)
        /\ EndsWith(trace[i].argv, <<ret.tag, "-">>)
              <=> (call.op = "Shell" /\ call.commandArgs = <<>>)

====
